---- MODULE Spec2Model ----
(***************************************************************************)
(* Symbolic transition decomposition of pygom/model/_ode_composition.py.   *)
(*                                                                         *)
(* A sympy expression in expanded form is modelled as a polynomial: a set  *)
(* of terms [c, m] with pairwise distinct monomials m and nonzero integer  *)
(* coefficients c.  A monomial is the set of symbols it multiplies (the    *)
(* inputs are square free, so no Pow node occurs).  The empty set of terms *)
(* is sympy's Integer(0).  sympy builds the following trees for it:        *)
(*   no term                 Integer(0)       args ()                      *)
(*   one term, m = {}        Integer(c)       args ()                      *)
(*   one term, c = 1, m={x}  Symbol x         args ()                      *)
(*   any other single term   Mul              args (c if c # 1, symbols)   *)
(*   two or more terms       Add              args (the terms)             *)
(***************************************************************************)
EXTENDS Integers, Sequences, FiniteSets

VARIABLES
    states,     \* the ordered list of state symbols
    A0,         \* a transition matrix handed to pureTransitionToOde
    fx0,        \* the ODE vector handed to the decomposition
    pc,         \* position in odeToPureTransition / which function has run
    tList,      \* output of _findMatchingExpression (with repetitions)
    bdList,     \* unmatched (birth/death) expressions
    termList,   \* matched 2-tuples <<t1, t2>>
    fx,         \* ODE vector after stripBDFromOde
    A,          \* the transition matrix being filled
    remain,     \* the remainder list currently held by odeToPureTransition
    log,        \* history: every executed A[i,j] += t, as [pass, pair, i, j, t]
    B           \* incidence matrix of generateDirectedDependencyGraph

vars == <<states, A0, fx0, pc, tList, bdList, termList, fx, A, remain, log, B>>

-----------------------------------------------------------------------------
(* Bounds of the model *)

\* largest weight of an input ODE vector: the sum of the absolute values of the
\* coefficients of all its terms (four terms of coefficient 1 or -1, or 2*x and -2*x)
MaxWeight == 4

\* largest number of nonzero cells in an input transition matrix
MaxCells == 3

\* the monomials the inputs are built from: mu, gamma*I, beta*S*I, over the
\* state symbols S, I, R and the parameters beta, gamma, mu
Monomials == {{"mu"}, {"gamma", "I"}, {"beta", "S", "I"}}

StateLists == {<<"S", "I">>, <<"S", "I", "R">>}

-----------------------------------------------------------------------------
(* Expressions *)

Zero == {}

Term(c, m) == {[c |-> c, m |-> m]}

Num(c) == IF c = 0 THEN Zero ELSE Term(c, {})

Sym(s) == Term(1, {s})

MonosOf(p) == {t.m : t \in p}

Coef(p, m) == IF \E t \in p : t.m = m THEN (CHOOSE t \in p : t.m = m).c ELSE 0

\* sympy's p + q: like terms are collected, zero coefficients vanish
PAdd(p, q) ==
    {[c |-> Coef(p, m) + Coef(q, m), m |-> m] :
        m \in {k \in MonosOf(p) \cup MonosOf(q) : Coef(p, k) + Coef(q, k) # 0}}

PNeg(p) == {[c |-> 0 - t.c, m |-> t.m] : t \in p}

PSub(p, q) == PAdd(p, PNeg(q))

RECURSIVE PSum(_)
PSum(q) == IF q = <<>> THEN Zero ELSE PAdd(Head(q), PSum(Tail(q)))

RECURSIVE PSumSet(_)
PSumSet(s) ==
    IF s = {} THEN Zero
    ELSE LET p == CHOOSE x \in s : TRUE IN PAdd(p, PSumSet(s \ {p}))

IsAdd(p) == Cardinality(p) >= 2

IsMul(p) ==
    /\ Cardinality(p) = 1
    /\ \E t \in p : t.m # {} /\ (t.c # 1 \/ Cardinality(t.m) >= 2)

\* expr.args
Args(p) ==
    IF IsAdd(p) THEN {{t} : t \in p}
    ELSE IF IsMul(p)
         THEN LET t == CHOOSE u \in p : TRUE
              IN  (IF t.c # 1 THEN {Num(t.c)} ELSE {}) \cup {Sym(s) : s \in t.m}
         ELSE {}

\* expr.atoms(): the symbols and numbers at the leaves of the tree
Atoms(p) ==
    IF p = Zero THEN {Zero}
    ELSE UNION {(IF t.c # 1 \/ t.m = {} THEN {Num(t.c)} ELSE {})
                    \cup {Sym(s) : s \in t.m} : t \in p}

_expressionLength(p) == IF IsMul(p) THEN Cardinality(Args(p)) ELSE 0

RECURSIVE _getExpression(_)
_getExpression(p) ==
    LET t == IF Cardinality(Atoms(p)) > 1 THEN Args(p) ELSE {p}
    IN  IF \A ti \in t : _expressionLength(ti) = 0
        THEN {p}
        ELSE {ti \in t : _expressionLength(ti) = 0}
             \cup UNION {_getExpression(ti) :
                            ti \in {u \in t : _expressionLength(u) # 0 /\ IsMul(u)}}

\* the keys of the dictionary; their order is the dictionary's
getExpressions(p) == _getExpression(p)

RECURSIVE _getLeaf(_)
_getLeaf(p) ==
    UNION {IF _expressionLength(ti) = 0 THEN {ti} ELSE _getLeaf(ti) : ti \in Args(p)}

getLeafs(p) == _getLeaf(p)

\* mutant: the test of the args is forgotten, only the whole equation is compared
_hasExpression_EqualityOnly(eq, expr) == expr = eq

_hasExpression(eq, expr) == expr = eq \/ expr \in Args(eq)

\* every order a set can be listed in
Orderings(s) ==
    {q \in [1..Cardinality(s) -> s] : \A i, j \in 1..Cardinality(s) : q[i] = q[j] => i = j}

SeqToSet(q) == {q[i] : i \in 1..Len(q)}

-----------------------------------------------------------------------------
(* Term matcher *)

\* the index pairs (i, j), i < j, in the order the two nested loops visit them
RECURSIVE IndexPairs(_, _, _)
IndexPairs(i, j, n) ==
    IF i >= n THEN <<>>
    ELSE IF j > n THEN IndexPairs(i + 1, i + 2, n)
    ELSE <<<<i, j>>>> \o IndexPairs(i, j + 1, n)

\* the visited pairs whose two expressions cancel (b == 0)
CancellingPairs(list) ==
    SelectSeq(IndexPairs(1, 2, Len(list)),
              LAMBDA p : PAdd(list[p[1]], list[p[2]]) = Zero)

\* mutant: only the first expression of a cancelling pair is appended
_findMatchingExpression_FirstOnly(expressionList) ==
    LET mp == CancellingPairs(expressionList)
    IN  [k \in 1..Len(mp) |-> expressionList[mp[k][1]]]

_findMatchingExpression(expressionList) ==
    LET mp == CancellingPairs(expressionList)
    IN  [k \in 1..(2 * Len(mp)) |->
            IF k % 2 = 1 THEN expressionList[mp[(k + 1) \div 2][1]]
                         ELSE expressionList[mp[k \div 2][2]]]

\* the test that decides which element of a tuple comes second
HasMinusOneLeaf(expr) == Num(0 - 1) \in getLeafs(expr)

_transitionListToMatchedTuple(transitionList) ==
    LET mp == CancellingPairs(transitionList)
    IN  [k \in 1..Len(mp) |->
            LET ti == transitionList[mp[k][1]]
                tj == transitionList[mp[k][2]]
            IN  IF HasMinusOneLeaf(ti) THEN <<tj, ti>> ELSE <<ti, tj>>]

\* the concatenated getExpressions lists of equations 1..k, in every order the
\* dictionaries can list their keys
RECURSIVE TransitionLists(_, _)
TransitionLists(exprVec, k) ==
    IF k = 0 THEN {<<>>}
    ELSE {p \o q : p \in TransitionLists(exprVec, k - 1),
                   q \in Orderings(getExpressions(exprVec[k]))}

\* getUnmatchedExpressionVector(exprVec, full_output=True) for one listing of the
\* terms: the unmatched set, the matched tuples, and the matched list itself
getUnmatchedExpressionVector(transitionList) ==
    LET matchedTransitionList == _findMatchingExpression(transitionList)
    IN  [out     |-> SeqToSet(transitionList) \ SeqToSet(matchedTransitionList),
         matched |-> matchedTransitionList,
         tuples  |-> _transitionListToMatchedTuple(matchedTransitionList)]

\* getMatchingExpressionVector(exprVec, outTuple=True): list(set(...)) may list the
\* matched terms in any order, so this is the set of lists it can return
getMatchingExpressionVector(exprVec) ==
    LET anyList == CHOOSE q \in TransitionLists(exprVec, Len(exprVec)) : TRUE
        matchedSet == SeqToSet(_findMatchingExpression(anyList))
    IN  {_transitionListToMatchedTuple(q) : q \in Orderings(matchedSet)}

-----------------------------------------------------------------------------
(* Matrices *)

Idx(n) == 1..n

ZeroMatrix(n) == [c \in Idx(n) \X Idx(n) |-> Zero]

pureTransitionToOde(M, n) ==
    [i \in Idx(n) |->
        PSub(PSum([k \in Idx(n) |-> M[<<k, i>>]]),
             PSum([k \in Idx(n) |-> M[<<i, k>>]]))]

\* every term of bdList found in the args of equation i is subtracted from it
stripBDFromOde(f, bd) ==
    [i \in 1..Len(f) |-> PSub(f[i], PSumSet({term \in bd : term \in Args(f[i])}))]

\* the indices of the states whose symbol is an atom of t1
PossibleOrigin(t1, st) == {i \in 1..Len(st) : Sym(st[i]) \in Atoms(t1)}

\* pass 1 executes A[i,j] += t1 for the k-th tuple
SingleOriginAdds(f, tl, st, k, i, j) ==
    /\ PossibleOrigin(tl[k][1], st) = {i}
    /\ i # j
    /\ _hasExpression(f[j], tl[k][1])

_singleOriginTransition(f, tl, st, M) ==
    [A      |-> [c \in DOMAIN M |->
                    PAdd(M[c], PSum([k \in 1..Len(tl) |->
                        IF SingleOriginAdds(f, tl, st, k, c[1], c[2])
                        THEN tl[k][1] ELSE Zero]))],
     remain |-> SelectSeq(tl, LAMBDA tt : Cardinality(PossibleOrigin(tt[1], st)) # 1),
     adds   |-> {[pair |-> tl[kc[1]], i |-> kc[2][1], j |-> kc[2][2]] :
                    kc \in {x \in (1..Len(tl)) \X DOMAIN M :
                              SingleOriginAdds(f, tl, st, x[1], x[2][1], x[2][2])}}]

\* mutant: t1 and t2 are mixed up in the two tests
PureTransitionAdds_Swapped(f, tl, k, i, j) ==
    /\ _hasExpression(f[i], tl[k][1])
    /\ _hasExpression(f[j], tl[k][2])

\* pass 2 executes A[i,j] += t1 for the k-th tuple
PureTransitionAdds(f, tl, k, i, j) ==
    /\ _hasExpression(f[i], tl[k][2])
    /\ _hasExpression(f[j], tl[k][1])

_odeToPureTransition(f, tl, M) ==
    [A      |-> [c \in DOMAIN M |->
                    PAdd(M[c], PSum([k \in 1..Len(tl) |->
                        IF PureTransitionAdds(f, tl, k, c[1], c[2])
                        THEN tl[k][1] ELSE Zero]))],
     remain |-> LET keep == {k \in 1..Len(tl) :
                                ~ \E c \in DOMAIN M : PureTransitionAdds(f, tl, k, c[1], c[2])}
                    pos  == SelectSeq([k \in 1..Len(tl) |-> k], LAMBDA k : k \in keep)
                IN  [k \in 1..Len(pos) |-> tl[pos[k]]],
     adds   |-> {[pair |-> tl[kc[1]], i |-> kc[2][1], j |-> kc[2][2]] :
                    kc \in {x \in (1..Len(tl)) \X DOMAIN M :
                              PureTransitionAdds(f, tl, x[1], x[2][1], x[2][2])}}]

\* generateDirectedDependencyGraph for one transition list
generateDirectedDependencyGraph(odeMatrix, transitionList) ==
    [c \in (1..Len(odeMatrix)) \X (1..Len(transitionList)) |->
        (IF _hasExpression(odeMatrix[c[1]], transitionList[c[2]][1]) THEN 0 - 1 ELSE 0)
        + (IF _hasExpression(odeMatrix[c[1]], transitionList[c[2]][2]) THEN 1 ELSE 0)]

-----------------------------------------------------------------------------
(* Inputs *)

Abs(c) == IF c < 0 THEN 0 - c ELSE c

Coefs == (0 - MaxWeight)..MaxWeight

RECURSIVE Weight(_)
Weight(p) ==
    IF p = {} THEN 0
    ELSE LET t == CHOOSE x \in p : TRUE IN Abs(t.c) + Weight(p \ {t})

\* an equation: one coefficient per monomial, 0 for an absent term
Equations ==
    {e \in {{[c |-> f[m], m |-> m] : m \in {k \in Monomials : f[k] # 0}} :
                f \in [Monomials -> Coefs]} : Weight(e) <= MaxWeight}

\* the ODE vectors of k equations and weight at most w
RECURSIVE OdeVectors(_, _)
OdeVectors(k, w) ==
    IF k = 0 THEN {<<>>}
    ELSE UNION {{<<e>> \o v : v \in OdeVectors(k - 1, w - Weight(e))} :
                    e \in {x \in Equations : Weight(x) <= w}}

\* a cell of an input transition matrix: empty, or one rate term with coefficient 1
Rates == {Zero} \cup {Term(1, m) : m \in Monomials}

Matrices(n) ==
    {M \in [Idx(n) \X Idx(n) -> Rates] :
        /\ \A i \in Idx(n) : M[<<i, i>>] = Zero
        /\ Cardinality({c \in Idx(n) \X Idx(n) : M[c] # Zero}) <= MaxCells}

-----------------------------------------------------------------------------
(* The program *)

Init ==
    /\ states \in StateLists
    /\ \/ /\ pc = "matrix"
          /\ A0 \in Matrices(Len(states))
          /\ fx0 = [i \in Idx(Len(states)) |-> Zero]
       \/ /\ pc = "ode"
          /\ A0 = ZeroMatrix(Len(states))
          /\ fx0 \in OdeVectors(Len(states), MaxWeight)
    /\ tList = <<>>
    /\ bdList = {}
    /\ termList = <<>>
    /\ fx = fx0
    /\ A = ZeroMatrix(Len(states))
    /\ remain = <<>>
    /\ log = {}
    /\ B = <<>>

n == Len(states)

\* pureTransitionToOde(A0): the ODE of a transition matrix
Reconstruct ==
    /\ pc = "matrix"
    /\ fx0' = pureTransitionToOde(A0, n)
    /\ fx' = fx0'
    /\ pc' = "ode"
    /\ UNCHANGED <<states, A0, tList, bdList, termList, A, remain, log, B>>

\* odeToPureTransition, line 410: bdList, termList = getUnmatchedExpressionVector(fx, True)
Match ==
    /\ pc = "ode"
    /\ \E transitionList \in TransitionLists(fx0, n) :
          LET r == getUnmatchedExpressionVector(transitionList)
          IN  /\ tList' = r.matched
              /\ bdList' = r.out
              /\ termList' = r.tuples
    /\ pc' = "matched"
    /\ UNCHANGED <<states, A0, fx0, fx, A, remain, log, B>>

\* line 411: fx = stripBDFromOde(fx, bdList)
Strip ==
    /\ pc = "matched"
    /\ fx' = stripBDFromOde(fx0, bdList)
    /\ pc' = "stripped"
    /\ UNCHANGED <<states, A0, fx0, tList, bdList, termList, A, remain, log, B>>

\* line 413: A, remainTermList = _singleOriginTransition(fx, termList, states)
Pass1 ==
    /\ pc = "stripped"
    /\ LET r == _singleOriginTransition(fx, termList, states, ZeroMatrix(n))
       IN  /\ A' = r.A
           /\ remain' = r.remain
           /\ log' = {[pass |-> 1, pair |-> w.pair, i |-> w.i, j |-> w.j] : w \in r.adds}
    /\ pc' = "pass1"
    /\ UNCHANGED <<states, A0, fx0, tList, bdList, termList, fx, B>>

\* line 414: A, remainTermList = _odeToPureTransition(fx, remainTermList, A)
Pass2 ==
    /\ pc = "pass1"
    /\ LET r == _odeToPureTransition(fx, remain, A)
       IN  /\ A' = r.A
           /\ remain' = r.remain
           /\ log' = log \cup
                     {[pass |-> 2, pair |-> w.pair, i |-> w.i, j |-> w.j] : w \in r.adds}
    /\ pc' = "pass2"
    /\ UNCHANGED <<states, A0, fx0, tList, bdList, termList, fx, B>>

\* lines 416-417: diffOde = simplify(fx - pureTransitionToOde(A))
diffOde == [i \in Idx(n) |-> PSub(fx[i], pureTransitionToOde(A, n)[i])]

\* lines 418-422: the residual is zero, A and remainTermList are returned
Return ==
    /\ pc = "pass2"
    /\ \A i \in Idx(n) : diffOde[i] = Zero
    /\ pc' = "done"
    /\ UNCHANGED <<states, A0, fx0, tList, bdList, termList, fx, A, remain, log, B>>

\* lines 423-433: the residual is matched again, the tuples are swapped and
\* _odeToPureTransition runs on the residual; its result is returned unchecked
Refine ==
    /\ pc = "pass2"
    /\ \E i \in Idx(n) : diffOde[i] # Zero
    /\ LET diffTerm == SelectSeq(diffOde, LAMBDA x : x # Zero)
       IN  \E found \in getMatchingExpressionVector(diffTerm) :
              LET diffTermList == [k \in 1..Len(found) |-> <<found[k][2], found[k][1]>>]
                  r == _odeToPureTransition(diffOde, diffTermList, A)
              IN  /\ A' = r.A
                  /\ remain' = r.remain
                  /\ log' = log \cup
                        {[pass |-> 3, pair |-> w.pair, i |-> w.i, j |-> w.j] : w \in r.adds}
    /\ pc' = "refined"
    /\ UNCHANGED <<states, A0, fx0, tList, bdList, termList, fx, B>>

\* generateDirectedDependencyGraph(odeMatrix) with the default transition list
DependencyGraph ==
    /\ pc = "ode"
    /\ \E transitionList \in getMatchingExpressionVector(fx0) :
          /\ termList' = transitionList
          /\ B' = generateDirectedDependencyGraph(fx0, transitionList)
    /\ pc' = "graph"
    /\ UNCHANGED <<states, A0, fx0, tList, bdList, fx, A, remain, log>>

Next ==
    \/ Reconstruct
    \/ Match
    \/ Strip
    \/ Pass1
    \/ Pass2
    \/ Return
    \/ Refine
    \/ DependencyGraph

Spec == Init /\ [][Next]_vars

Returned == pc \in {"done", "refined"}

-----------------------------------------------------------------------------
(* Vocabulary of the claims *)

betaSI == Term(1, {"beta", "S", "I"})

gammaI == Term(1, {"gamma", "I"})

mu == Sym("mu")

\* odeToPureTransition has got its bdList and termList
Matched == pc \in {"matched", "stripped", "pass1", "pass2", "done", "refined"}

IsPositive(p) == p # Zero /\ \A t \in p : t.c > 0

IsNegative(p) == p # Zero /\ \A t \in p : t.c < 0

\* the input ODE with every unmatched term taken out of every equation
WithoutUnmatched == [i \in Idx(n) |-> {t \in fx0[i] : {t} \notin bdList}]

NonzeroCells(M) == {c \in DOMAIN M : M[c] # Zero}

\* the expressions of all equations of the input
InputTerms == UNION {getExpressions(fx0[i]) : i \in Idx(n)}

MatchedSet == SeqToSet(tList)

ZeroEquations == {i \in Idx(n) : fx0[i] = Zero}

\* pass `pass` executed A[i,j] += pair[1] for some cell
AddedIn(pass, pair) == \E w \in log : w.pass = pass /\ w.pair = pair

-----------------------------------------------------------------------------
(* C1: odeToPureTransition returns only a matrix whose reconstruction equals   *)
(* the ODE without its unmatched terms (the code has no failure exit, so every *)
(* run returns).                                                               *)
C1_ReconstructionEqualsOde ==
    Returned => pureTransitionToOde(A, n) = WithoutUnmatched

(* C2: round trip: decomposing the ODE of a zero-diagonal transition matrix A0 *)
(* gives a matrix with the same set of nonzero cells as A0.                    *)
C2_RoundTripCells ==
    (Returned /\ fx0 = pureTransitionToOde(A0, n)) => NonzeroCells(A) = NonzeroCells(A0)

(* C3: every column of the matrix of generateDirectedDependencyGraph holds     *)
(* exactly one -1 and exactly one +1 and zeros elsewhere (the code has no      *)
(* error exit, so every call returns a matrix).                                *)
C3_ColumnsBalanced ==
    pc = "graph" =>
        \A k \in 1..Len(termList) :
            /\ Cardinality({i \in Idx(n) : B[<<i, k>>] = 0 - 1}) = 1
            /\ Cardinality({i \in Idx(n) : B[<<i, k>>] = 1}) = 1
            /\ \A i \in Idx(n) : B[<<i, k>>] \in {0 - 1, 0, 1}

\* Scenario A: states [S, I, R], ODE [-beta*S*I, beta*S*I - gamma*I, gamma*I]
ScenarioA ==
    /\ states = <<"S", "I", "R">>
    /\ fx0 = <<PNeg(betaSI), PSub(betaSI, gammaI), gammaI>>

\* Scenario B: states [S, I], ODE [mu - beta*S*I, beta*S*I - gamma*I]
ScenarioB ==
    /\ states = <<"S", "I">>
    /\ fx0 = <<PSub(mu, betaSI), PSub(betaSI, gammaI)>>

(* C4: in scenario A the matched pairs are exactly (beta*S*I, -beta*S*I) and   *)
(* (gamma*I, -gamma*I), nothing is unmatched, and the returned matrix holds    *)
(* beta*S*I at [S,I], gamma*I at [I,R] and zero everywhere else.               *)
C4_ScenarioA ==
    ScenarioA =>
        /\ Matched =>
              /\ bdList = {}
              /\ Len(termList) = 2
              /\ SeqToSet(termList) =
                    {<<betaSI, PNeg(betaSI)>>, <<gammaI, PNeg(gammaI)>>}
        /\ pc # "refined"
        /\ pc = "done" =>
              A = [c \in Idx(3) \X Idx(3) |->
                      IF c = <<1, 2>> THEN betaSI
                      ELSE IF c = <<2, 3>> THEN gammaI ELSE Zero]

C4_Witness == ScenarioA /\ pc = "done"

(* C5: in scenario B the unmatched terms are exactly {mu, -gamma*I}, the only  *)
(* matched pair is (beta*S*I, -beta*S*I), and the returned matrix has the      *)
(* single nonzero entry [S,I] = beta*S*I.                                      *)
C5_ScenarioB ==
    ScenarioB =>
        /\ Matched =>
              /\ bdList = {mu, PNeg(gammaI)}
              /\ termList = <<<<betaSI, PNeg(betaSI)>>>>
        /\ Returned =>
              A = [c \in Idx(2) \X Idx(2) |-> IF c = <<1, 2>> THEN betaSI ELSE Zero]

C5_Witness == ScenarioB /\ Returned

(* C6: in every 2-tuple of matched terms returned by                           *)
(* getUnmatchedExpressionVector(full_output=True) and by                       *)
(* getMatchingExpressionVector(outTuple=True) the two elements sum to zero,    *)
(* the first is the positive term and the second the negative one (stated for  *)
(* the tuples of nonzero terms).                                               *)
C6_FirstPositiveSecondNegative ==
    (Matched \/ pc = "graph") =>
        \A k \in 1..Len(termList) :
            termList[k][1] # Zero =>
                /\ PAdd(termList[k][1], termList[k][2]) = Zero
                /\ IsPositive(termList[k][1])
                /\ IsNegative(termList[k][2])

(* C7: every matched pair that pass 1 and pass 2 added to no cell is in the    *)
(* remainder list odeToPureTransition returns.                                 *)
C7_UnplacedPairsReturned ==
    Returned =>
        \A k \in 1..Len(termList) :
            (~ AddedIn(1, termList[k]) /\ ~ AddedIn(2, termList[k]))
                => termList[k] \in SeqToSet(remain)

(* C8: the diagonal of the transition matrix is zero in every state of the     *)
(* computation.                                                                *)
C8_ZeroDiagonal == \A i \in Idx(n) : A[<<i, i>>] = Zero

\* the matched pairs pass 1 must defer: two or more state symbols, or none
Ambiguous(pair) == Cardinality(PossibleOrigin(pair[1], states)) # 1

PositiveOf(pair) == IF IsPositive(pair[1]) THEN pair[1] ELSE pair[2]

NegativeOf(pair) == IF IsPositive(pair[1]) THEN pair[2] ELSE pair[1]

(* C10: a matched pair whose term holds two or more state symbols, or none, is *)
(* not added to the matrix by pass 1 and is in the remainder of pass 1; pass 2 *)
(* adds its positive term to every cell [i,j] such that equation i has the     *)
(* negative term and equation j has the positive term (stated for the pairs of *)
(* nonzero terms).                                                             *)
C10_AmbiguousOrigin ==
    \A k \in 1..Len(termList) :
        (Ambiguous(termList[k]) /\ termList[k][1] # Zero) =>
            /\ pc \in {"pass1", "pass2", "done", "refined"} => ~ AddedIn(1, termList[k])
            /\ pc = "pass1" => termList[k] \in SeqToSet(remain)
            /\ pc \in {"pass2", "done", "refined"} =>
                  /\ termList[k][1] = PositiveOf(termList[k])
                  /\ \A i, j \in Idx(n) :
                        (NegativeOf(termList[k]) \subseteq fx[i]
                            /\ PositiveOf(termList[k]) \subseteq fx[j])
                        => \E w \in log : /\ w.pass = 2 /\ w.pair = termList[k]
                                          /\ w.i = i /\ w.j = j

(* C9, as stated: a term is matched exactly when its negation is among the     *)
(* input terms; the unmatched terms are the distinct terms minus the matched   *)
(* ones; no unmatched term has its negation among the input terms.             *)
C9_MatchedIffNegationPresent ==
    Matched =>
        /\ \A t \in InputTerms : t \in MatchedSet <=> PNeg(t) \in InputTerms
        /\ MatchedSet \subseteq InputTerms
        /\ bdList = InputTerms \ MatchedSet
        /\ \A u \in bdList : PNeg(u) \notin InputTerms

(* C9, amended: a nonzero term is matched exactly when its negation is among   *)
(* the input terms, however often either occurs; the expression 0 of an        *)
(* identically zero equation is matched exactly when two or more equations are *)
(* zero; the matched set is closed under negation; the unmatched terms are the *)
(* distinct terms minus the matched ones, and no nonzero unmatched term has    *)
(* its negation among the input terms.                                         *)
C9_Amended ==
    Matched =>
        /\ \A t \in InputTerms :
              t # Zero => (t \in MatchedSet <=> PNeg(t) \in InputTerms)
        /\ Zero \in MatchedSet <=> Cardinality(ZeroEquations) >= 2
        /\ \A t \in MatchedSet : PNeg(t) \in MatchedSet
        /\ MatchedSet \subseteq InputTerms
        /\ bdList = InputTerms \ MatchedSet
        /\ \A u \in bdList : u # Zero => PNeg(u) \notin InputTerms

\* a matched term that occurs in two equations, beside an unmatched term
C9_Witness ==
    /\ pc = "matched"
    /\ bdList # {}
    /\ \E t \in MatchedSet :
          /\ t # Zero
          /\ Cardinality({i \in Idx(n) : t \in getExpressions(fx0[i])}) >= 2

\* stripBDFromOde has returned
Stripped == pc \in {"stripped", "pass1", "pass2", "done", "refined"}

(* C11: after stripBDFromOde(fx, bdList), with bdList the unmatched terms of   *)
(* fx, none of the unmatched terms remains in any equation and                 *)
(* getUnmatchedExpressionVector of the result is empty, also for an equation   *)
(* that is a single unmatched term (stated for the nonzero terms).             *)
C11_StripLeavesPureTransitions ==
    Stripped =>
        /\ \A i \in Idx(n) : \A u \in bdList :
              u # Zero => u \notin getExpressions(fx[i])
        /\ \A transitionList \in TransitionLists(fx, n) :
              getUnmatchedExpressionVector(transitionList).out \subseteq {Zero}

====
